---- MODULE Spec2Model ----
(***************************************************************************)
(* Lip-sync avatar pipeline of the edge AI studio lipsync worker:          *)
(*   WebRTCAvatar (session controller), OpenAICompatibleTTSModule (TTS     *)
(*   streaming adapter), Wav2lipAvatar (audio ingestion, batched lip-sync  *)
(*   inference, frame compositor) and the transport pump.                  *)
(* One session is modelled: its queues, its flags and the position of      *)
(* every thread the session starts.                                        *)
(***************************************************************************)
EXTENDS Integers, Sequences, FiniteSets, TLC

\* ---------------------------------------------------------------- bounds
\* number of base frames of the avatar (face_frames_len)
N == 3
\* configured batch size (configs["batch_size"])
BatchSize == 2
\* ticks of the ingestion loop that are explored
MaxTicks == 3
\* utterances spoken on the session
MaxUtt == 1
\* fixed-size pieces one utterance is sliced into
MaxPieces == 1
\* calls of the soft stop
MaxStops == 1
\* pieces of the utterance of the end-to-end scenario
ScenarioPieces == 4
\* ticks the end-to-end scenario runs for
ScenarioTicks == 4
\* largest batch size of the sessions that are torn down without speech
QuietBatch == 3
\* reflection is explored for sizes 1..MaxSize and indices 0..MaxIndex
MaxSize == 6
MaxIndex == 24

\* the wall clock runs from 0 to MaxNow (units of 20 ms)
MaxNow == 6
\* offers received by the server
MaxOffers == 3
\* longest resampled provider chunk that is sliced, in samples
MaxSamples == 650
\* utterances spoken on the session whose TTS worker is looked at
MaxSpeaks == 2

\* ------------------------------------------------------ program constants
audio_left_stride == 2
audio_right_stride == 2
\* a mel-feature queue one batch deeper
MelQueueDepth_three == 2 + 1
MelQueueDepth == 2

VARIABLES
    \* session configuration, fixed at construction
    batch_size,          \* Wav2lipAvatar.batch_size
    face_frames_len,     \* Wav2lipAvatar.face_frames_len
    max_ticks,           \* ticks of the ingestion loop that are explored
    max_utt,             \* utterances that are explored
    \* session controller
    thread,              \* WebRTCStreamer.thread: "none" or "alive"
    quit,                \* thread_quit event is set
    ctl_pc,              \* position of the control surface (event loop)
    nspoken,             \* utterances accepted by speak() so far
    nstops,              \* soft stops called so far
    \* queues
    message_queue,
    audio_input_queue,
    audio_output_queue,
    audio_feature_queue,
    result_frame_queue,
    combined_frame_queue,
    video_track_queue,   \* frames queued on the video track
    audio_track_queue,   \* frames queued on the audio track
    \* Wav2lipAvatar fields
    stop_infer,
    audio_frames,        \* len(self.audio_frames)
    \* ingestion loop (WebRTCAvatar.stream + text_to_speech)
    ing_pc, ing_i, ing_flush, tick,
    \* TTS worker (inference + stream_tts)
    tts_pc, tts_utt, tts_left, resp,
    \* inference stage (lip_sync)
    lip_pc, lip_mel, lip_audio, lip_speech, lip_n, lip_i, index, nput,
    lip_faces,           \* the base-frame indices of img_batch
    \* compositor and transport pump
    merge_pc, pump_pc,
    \* what the soft stop saw when it returned
    stop_tick, stop_utt,
    \* reflection explored on its own
    size, idx, res,
    \* Wav2lipAvatar.cv_frames: the top-row pixel of every stored full frame
    cv_frames,
    \* the newest frame queued on the video track
    track_tail,
    \* whether the last sleep_track slept
    slept,
    \* wall clock, in units of AUDIO_PTIME (20 ms), and the pacing fields of
    \* the two tracks
    now, trk,
    \* one provider chunk being sliced by stream_tts
    sl_adapter, sl_total, sl_index, sl_length, sl_out, sl_pc,
    \* main.py: the avatars registry, the peer connections and the streamers
    avatars, pc_sid, pc_state, strm, noffers

cfgVars  == <<batch_size, face_frames_len, max_ticks, max_utt>>
ctlVars  == <<cfgVars, thread, quit, ctl_pc, nspoken, nstops, stop_tick, stop_utt>>
queueVars == <<message_queue, audio_input_queue, audio_output_queue,
               audio_feature_queue, result_frame_queue, combined_frame_queue,
               video_track_queue, audio_track_queue>>
ingVars  == <<ing_pc, ing_i, ing_flush, tick, audio_frames>>
ttsVars  == <<tts_pc, tts_utt, tts_left, resp>>
lipVars  == <<lip_pc, lip_mel, lip_audio, lip_speech, lip_n, lip_i, index, nput,
             lip_faces>>
reflVars == <<size, idx, res>>

paceVars == <<now, trk>>
sliceVars == <<sl_adapter, sl_total, sl_index, sl_length, sl_out, sl_pc>>
sessVars == <<avatars, pc_sid, pc_state, strm, noffers>>
sideVars == <<paceVars, sliceVars, sessVars>>
auxVars  == <<cv_frames, track_tail, slept, sideVars>>

vars == <<ctlVars, queueVars, stop_infer, ingVars, ttsVars, lipVars,
          merge_pc, pump_pc, reflVars, auxVars>>

\* Queue(self.batch_size * 2)
ResultQueueDepth == batch_size * 2

\* session ids an offer can run under: the session_id of the config file, or
\* the first four characters of a uuid4
SessionIds == {"configured", "1f0c", "9a3e"}

\* ---------------------------------------------------------------- helpers
\* index - 1 forgotten on the way back
reflection_off_by_one(sz, ix) ==
    LET r == ix % sz
    IN  IF (ix \div sz) % 2 = 0 THEN r ELSE sz - r

\* wrap-around instead of reflection
reflection_wrap(sz, ix) == ix % sz

\* Avatar.reflection(size, index)
reflection(sz, ix) ==
    LET r == ix % sz
    IN  IF (ix \div sz) % 2 = 0 THEN r ELSE sz - r - 1

\* number of mel windows process_audio_to_mel_chunks returns for a rolling
\* buffer of len chunks: the loop runs while i < (len - left - right) / 2
MelChunks(len) ==
    IF len <= audio_left_stride + audio_right_stride
    THEN 0
    ELSE (len - audio_left_stride - audio_right_stride + 1) \div 2

Min(a, b) == IF a < b THEN a ELSE b

\* CONSTANTS.AUDIO_SAMPLE_RATE, CONSTANTS.AUDIO_FPS
AUDIO_SAMPLE_RATE == 16000
AUDIO_FPS == 25

\* CONSTANTS.AUDIO_CHUNK_SIZE = AUDIO_SAMPLE_RATE // AUDIO_FPS // 2
audio_chunk_size == (AUDIO_SAMPLE_RATE \div AUDIO_FPS) \div 2

\* a zero chunk tagged TALKING
SilenceChunk_talking(t) ==
    [utt |-> 0, kind |-> "silence", state |-> "TALKING", tick |-> t,
     slot |-> ing_i, samples |-> audio_chunk_size, zeros |-> TRUE]

\* a zero chunk made by the ingestion stage itself:
\* np.zeros(self.audio_chunk_size), AudioState.SILENT; tick and slot say
\* where in the stream the chunk was made
SilenceChunk(t) ==
    [utt |-> 0, kind |-> "silence", state |-> "SILENT", tick |-> t,
     slot |-> ing_i, samples |-> audio_chunk_size, zeros |-> TRUE]

\* a chunk read from the audio-in queue (a slice of chunk_size samples of the
\* utterance, or its all-zero flush chunk)
TalkingChunk(c, t) ==
    [utt |-> c.utt, kind |-> c.kind, state |-> "TALKING", tick |-> t,
     slot |-> ing_i, samples |-> audio_chunk_size, zeros |-> (c.kind = "flush")]

\* the top-row pixel of full frame i as load_avatar read it from the image
LoadedPixel(i) == 255 - i

\* image[0, :] &= 0xFE on a uint8 pixel
ClearLsb(v) == v - (v % 2)

\* no frame yet
NoFrame == [image |-> "none", crop |-> -1, frameIndex |-> -1, audio |-> <<>>]

\* VideoTrack.sleep: self.queue.qsize() >= 1.5 * batch_size
TrackSleeps(qsize, b) == 2 * qsize >= 3 * b

IsTalking(c) == c.state = "TALKING"

\* CONSTANTS.AUDIO_PTIME = 0.020 and CONSTANTS.VIDEO_PTIME = 0.040, in units
\* of 20 ms
AUDIO_PTIME == 1
VIDEO_PTIME == 2

Tracks == {"audio", "video"}

PTime(t) == IF t = "video" THEN VIDEO_PTIME ELSE AUDIO_PTIME

\* the unit AUDIO_PTIME and VIDEO_PTIME are written in, in milliseconds
PTIME_UNIT_MS == 20

\* CONSTANTS.VIDEO_CLOCK_RATE
VIDEO_CLOCK_RATE == 90000

ClockRate(t) == IF t = "video" THEN VIDEO_CLOCK_RATE ELSE AUDIO_SAMPLE_RATE

\* a timestamp step of one clock tick too few
PtsStep_short(t) == (PTime(t) * PTIME_UNIT_MS * ClockRate(t)) \div 1000 - 1

\* int(CONSTANTS.VIDEO_PTIME * CONSTANTS.VIDEO_CLOCK_RATE) and
\* int(CONSTANTS.AUDIO_PTIME * CONSTANTS.AUDIO_SAMPLE_RATE): seconds times
\* clock rate, cut to an integer
PtsStep(t) == (PTime(t) * PTIME_UNIT_MS * ClockRate(t)) \div 1000

\* AudioTrack.__init__ / VideoTrack.__init__: frame_count = 0, no timestamp
\* and no start_time yet; nobody is inside recv().  pts is the pts of the
\* frame recv() returned last
NewTrack ==
    [has_ts |-> FALSE, start_time |-> 0, frame_count |-> 0,
     pc |-> "idle", wake |-> 0, returned |-> 0, timestamp |-> 0, pts |-> -1]

PacerIdle == now = 0 /\ trk = [t \in Tracks |-> NewTrack]

\* no provider chunk is being sliced
SlicerIdle ==
    /\ sl_adapter = "openai" /\ sl_total = 0 /\ sl_index = 0
    /\ sl_length = 0 /\ sl_out = <<>> /\ sl_pc = "done"

\* main.py at start-up: avatars = {}, pcs = set()
RegistryIdle ==
    /\ avatars = [s \in SessionIds |-> 0]
    /\ pc_sid = [k \in 1..MaxOffers |-> "none"]
    /\ pc_state = [k \in 1..MaxOffers |-> "none"]
    /\ strm = [k \in 1..MaxOffers |-> "none"]
    /\ noffers = 0

SideIdle == PacerIdle /\ SlicerIdle /\ RegistryIdle

\* ------------------------------------------------------------------- Init
\* the session right after WebRTCAvatar.__init__: queues empty, no thread
SessionInit(b, n, t, u) ==
    /\ batch_size = b /\ face_frames_len = n /\ max_ticks = t /\ max_utt = u
    /\ thread = "none" /\ quit = FALSE /\ ctl_pc = "new"
    /\ nspoken = 0 /\ nstops = 0
    /\ message_queue = <<>> /\ audio_input_queue = <<>>
    /\ audio_output_queue = <<>> /\ audio_feature_queue = <<>>
    /\ result_frame_queue = <<>> /\ combined_frame_queue = <<>>
    /\ video_track_queue = 0 /\ audio_track_queue = 0
    /\ stop_infer = FALSE /\ audio_frames = 0
    /\ ing_pc = "idle" /\ ing_i = 0 /\ ing_flush = FALSE /\ tick = 0
    /\ tts_pc = "idle" /\ tts_utt = 0 /\ tts_left = 0
    /\ resp = [k \in 1..u |-> "none"]
    /\ lip_pc = "idle" /\ lip_mel = 0 /\ lip_audio = <<>>
    /\ lip_speech = FALSE /\ lip_n = 0 /\ lip_i = 0 /\ index = 0 /\ nput = 0
    /\ lip_faces = <<>>
    /\ merge_pc = "idle" /\ pump_pc = "idle"
    /\ stop_tick = -1 /\ stop_utt = 0
    /\ cv_frames = [i \in 0..(n - 1) |-> LoadedPixel(i)]
    /\ track_tail = NoFrame
    /\ slept = FALSE

\* the session that is spoken to MaxUtt times
PipelineInit(b, n, t) == SessionInit(b, n, t, MaxUtt)

Init ==
    /\ PipelineInit(BatchSize, N, MaxTicks)
    /\ size = 1 /\ idx = 0 /\ res = 0
    /\ SideIdle

\* ------------------------------------------------------- session controller
\* WebRTCAvatar.start: start_track(audio) creates the stream thread,
\* start_track(video) finds it already there
Start ==
    /\ ctl_pc = "new"
    /\ thread = "none"
    /\ thread' = "alive"
    /\ quit' = FALSE
    /\ ctl_pc' = "idle"
    /\ ing_pc' = "spawn"
    /\ UNCHANGED <<cfgVars, nspoken, nstops, stop_tick, stop_utt, queueVars, stop_infer,
                   ing_i, ing_flush, tick, audio_frames, ttsVars, lipVars,
                   merge_pc, pump_pc, reflVars, auxVars>>

\* WebRTCAvatar.stream, before its loop: the TTS worker, Wav2lipAvatar.start
\* (inference stage and compositor) and the transport pump are started
Spawn ==
    /\ ing_pc = "spawn"
    /\ ing_pc' = "check"
    /\ tts_pc' = "get"
    /\ lip_pc' = "getmel"
    /\ merge_pc' = "get"
    /\ pump_pc' = "get"
    /\ index' = 0
    /\ UNCHANGED <<ctlVars, queueVars, stop_infer, ing_i, ing_flush, tick,
                   audio_frames, tts_utt, tts_left, resp, lip_mel, lip_audio,
                   lip_speech, lip_n, lip_i, nput, lip_faces, reflVars, auxVars>>

\* a speak that does not look at the text
Speak_unchecked(len) ==
    /\ ctl_pc = "idle"
    /\ nspoken < max_utt
    /\ nspoken' = nspoken + 1
    /\ message_queue' = Append(message_queue, nspoken + 1)
    /\ UNCHANGED <<cfgVars, thread, quit, ctl_pc, nstops, stop_tick, stop_utt,
                   audio_input_queue, audio_output_queue, audio_feature_queue,
                   result_frame_queue, combined_frame_queue, video_track_queue,
                   audio_track_queue, stop_infer, ingVars, ttsVars, lipVars,
                   merge_pc, pump_pc, reflVars, auxVars>>

\* OpenAICompatibleTTSModule.speak (through WebRTCAvatar.echo); len is the
\* length of the text, and the (text, metadata) pair that is queued is
\* written as the number of the utterance
Speak(len) ==
    /\ ctl_pc = "idle"
    /\ nspoken < max_utt
    /\ IF len > 0
       THEN /\ nspoken' = nspoken + 1
            /\ message_queue' = Append(message_queue, nspoken + 1)
       ELSE UNCHANGED <<nspoken, message_queue>>
    /\ UNCHANGED <<cfgVars, thread, quit, ctl_pc, nstops, stop_tick, stop_utt,
                   audio_input_queue, audio_output_queue, audio_feature_queue,
                   result_frame_queue, combined_frame_queue, video_track_queue,
                   audio_track_queue, stop_infer, ingVars, ttsVars, lipVars,
                   merge_pc, pump_pc, reflVars, auxVars>>

\* WebRTCAvatar.llm_stop_response, first call: OpenAICompatibleTTSModule.stop
TtsStop ==
    /\ ctl_pc = "idle"
    /\ nstops < MaxStops
    /\ nstops' = nstops + 1
    /\ message_queue' = <<>>
    /\ ctl_pc' = "stopping"
    /\ UNCHANGED <<cfgVars, thread, quit, nspoken, stop_tick, stop_utt,
                   audio_input_queue, audio_output_queue, audio_feature_queue,
                   result_frame_queue, combined_frame_queue, video_track_queue,
                   audio_track_queue, stop_infer, ingVars, ttsVars, lipVars,
                   merge_pc, pump_pc, reflVars, auxVars>>

\* a soft stop that also sets the session's event
AvatarStop_teardown ==
    /\ ctl_pc = "stopping"
    /\ stop_infer' = TRUE
    /\ quit' = TRUE
    /\ ctl_pc' = "idle"
    /\ stop_tick' = tick
    /\ stop_utt' = nspoken
    /\ UNCHANGED <<cfgVars, thread, nspoken, nstops, queueVars, ingVars, ttsVars,
                   lipVars, merge_pc, pump_pc, reflVars, auxVars>>

\* WebRTCAvatar.llm_stop_response, second call: Wav2lipAvatar.stop
AvatarStop ==
    /\ ctl_pc = "stopping"
    /\ stop_infer' = TRUE
    /\ ctl_pc' = "idle"
    /\ stop_tick' = tick
    /\ stop_utt' = nspoken
    /\ UNCHANGED <<cfgVars, thread, quit, nspoken, nstops, queueVars, ingVars, ttsVars,
                   lipVars, merge_pc, pump_pc, reflVars, auxVars>>

\* WebRTCAvatar.stop -> stop_track(audio): the event is set, then the stream
\* thread is joined
StopTrack ==
    /\ ctl_pc = "idle"
    /\ thread = "alive"
    /\ quit' = TRUE
    /\ ctl_pc' = "join"
    /\ UNCHANGED <<cfgVars, thread, nspoken, nstops, stop_tick, stop_utt, queueVars,
                   stop_infer, ingVars, ttsVars, lipVars, merge_pc, pump_pc,
                   reflVars, auxVars>>

\* thread.join() returns once stream() has returned; stop_track(video) then
\* finds no thread, and stop() returns
Join ==
    /\ ctl_pc = "join"
    /\ ing_pc = "done"
    /\ thread' = "none"
    /\ ctl_pc' = "stopped"
    /\ UNCHANGED <<cfgVars, quit, nspoken, nstops, stop_tick, stop_utt, queueVars,
                   stop_infer, ingVars, ttsVars, lipVars, merge_pc, pump_pc,
                   reflVars, auxVars>>

\* ------------------------------------------------------------- TTS worker
\* Every worker loop is `while not signal_event.is_set(): get(timeout=1) ...`.
\* While the event is unset, testing it and timing out on an empty queue
\* change nothing, so a worker waiting for input stays at its get.  The test
\* that follows an iteration is taken with the iteration's last step
\* (AfterLoop); the test that finds the event set after a timeout, or after
\* the event was set behind a test already passed, is the worker's exit step.
AfterLoop(get) == IF quit THEN "done" ELSE get

\* OpenAICompatibleTTSModule.inference: the loop test finds the event set
TtsExit ==
    /\ tts_pc = "get"
    /\ quit
    /\ tts_pc' = "done"
    /\ UNCHANGED <<ctlVars, queueVars, stop_infer, ingVars, tts_utt, tts_left,
                   resp, lipVars, merge_pc, pump_pc, reflVars, auxVars>>

\* message_queue.get(block=True, timeout=1), then the request of
\* openai_compatible_tts: the provider answers ok = FALSE (status != 200, no
\* chunk is yielded) or a stream that slices into pieces fixed-size chunks
TtsGet(ok, pieces) ==
    /\ tts_pc = "get"
    /\ message_queue # <<>>
    /\ message_queue' = Tail(message_queue)
    /\ tts_utt' = Head(message_queue)
    /\ tts_left' = IF ok THEN pieces ELSE 0
    /\ resp' = [resp EXCEPT ![Head(message_queue)] =
                    IF ok THEN "ok" ELSE "failed"]
    /\ tts_pc' = "stream"
    /\ UNCHANGED <<ctlVars, audio_input_queue, audio_output_queue,
                   audio_feature_queue, result_frame_queue,
                   combined_frame_queue, video_track_queue, audio_track_queue,
                   stop_infer, ingVars, lipVars, merge_pc, pump_pc, reflVars, auxVars>>

\* a stream_tts without the put of line 115
StreamTts_noflush ==
    /\ tts_pc = "stream"
    /\ IF tts_left > 0
       THEN /\ audio_input_queue' =
                Append(audio_input_queue, [utt |-> tts_utt, kind |-> "speech"])
            /\ tts_left' = tts_left - 1
            /\ tts_pc' = "stream"
       ELSE /\ audio_input_queue' = audio_input_queue
            /\ tts_left' = 0
            /\ tts_pc' = AfterLoop("get")
    /\ UNCHANGED <<ctlVars, message_queue, audio_output_queue,
                   audio_feature_queue, result_frame_queue,
                   combined_frame_queue, video_track_queue, audio_track_queue,
                   stop_infer, ingVars, tts_utt, resp, lipVars, merge_pc,
                   pump_pc, reflVars, auxVars>>

\* stream_tts: one audio_queue.put per step; after the last piece the
\* all-zero chunk of line 115 is put, whatever the provider answered
StreamTts ==
    /\ tts_pc = "stream"
    /\ IF tts_left > 0
       THEN /\ audio_input_queue' =
                Append(audio_input_queue, [utt |-> tts_utt, kind |-> "speech"])
            /\ tts_left' = tts_left - 1
            /\ tts_pc' = "stream"
       ELSE /\ audio_input_queue' =
                Append(audio_input_queue, [utt |-> tts_utt, kind |-> "flush"])
            /\ tts_left' = 0
            /\ tts_pc' = AfterLoop("get")
    /\ UNCHANGED <<ctlVars, message_queue, audio_output_queue,
                   audio_feature_queue, result_frame_queue,
                   combined_frame_queue, video_track_queue, audio_track_queue,
                   stop_infer, ingVars, tts_utt, resp, lipVars, merge_pc,
                   pump_pc, reflVars, auxVars>>

\* -------------------------------------------------------- ingestion stage
\* WebRTCAvatar.stream: the loop test, and the branch of text_to_speech
StreamCheck ==
    /\ ing_pc = "check"
    /\ IF quit
       THEN /\ ing_pc' = "done"
            /\ UNCHANGED <<tick, ing_flush, ing_i>>
       ELSE /\ tick < max_ticks
            /\ tick' = tick + 1
            /\ ing_flush' = stop_infer
            /\ ing_i' = 0
            /\ ing_pc' = "slot"
    /\ UNCHANGED <<ctlVars, queueVars, stop_infer, audio_frames, ttsVars,
                   lipVars, merge_pc, pump_pc, reflVars, auxVars>>

\* text_to_speech: one pass of either for loop
Slot ==
    /\ ing_pc = "slot"
    /\ IF ing_flush
       THEN /\ audio_input_queue' = <<>>
            /\ audio_output_queue' =
                 Append(audio_output_queue, SilenceChunk(tick))
       ELSE IF audio_input_queue # <<>>
       THEN /\ audio_input_queue' = Tail(audio_input_queue)
            /\ audio_output_queue' =
                 Append(audio_output_queue,
                        TalkingChunk(Head(audio_input_queue), tick))
       ELSE /\ audio_input_queue' = audio_input_queue
            /\ audio_output_queue' =
                 Append(audio_output_queue, SilenceChunk(tick))
    /\ audio_frames' = audio_frames + 1
    /\ ing_i' = ing_i + 1
    /\ ing_pc' = IF ing_i + 1 < batch_size * 2 THEN "slot"
                 ELSE IF ing_flush THEN "unflush" ELSE "mel"
    /\ UNCHANGED <<ctlVars, message_queue, audio_feature_queue,
                   result_frame_queue, combined_frame_queue, video_track_queue,
                   audio_track_queue, stop_infer, ing_flush, tick, ttsVars,
                   lipVars, merge_pc, pump_pc, reflVars, auxVars>>

\* a flush branch that leaves the flag set
Unflush_keep ==
    /\ ing_pc = "unflush"
    /\ ing_pc' = "mel"
    /\ UNCHANGED <<ctlVars, queueVars, stop_infer, ing_i, ing_flush, tick,
                   audio_frames, ttsVars, lipVars, merge_pc, pump_pc,
                   reflVars, auxVars>>

\* text_to_speech line 347: self.stop_infer = False
Unflush ==
    /\ ing_pc = "unflush"
    /\ stop_infer' = FALSE
    /\ ing_pc' = "mel"
    /\ UNCHANGED <<ctlVars, queueVars, ing_i, ing_flush, tick, audio_frames,
                   ttsVars, lipVars, merge_pc, pump_pc, reflVars, auxVars>>

\* text_to_speech lines 366-372: the mel windows of the rolling buffer; a
\* non-empty batch is put on the mel-feature queue (the put waits while the
\* queue is full) and the buffer is cut to its last left+right chunks.
\* stream() then calls sleep_track: VideoTrack.sleep sleeps when the video
\* track queue is long enough, a wall-clock sleep that changes nothing else
\* a put that never waits
MelPutBlocked_never == FALSE

MelPutBlocked ==
    /\ MelChunks(audio_frames) > 0
    /\ Len(audio_feature_queue) >= MelQueueDepth

PutMel ==
    /\ ing_pc = "mel"
    /\ IF MelChunks(audio_frames) = 0
       THEN UNCHANGED <<audio_feature_queue, audio_frames>>
       ELSE /\ ~MelPutBlocked
            /\ audio_feature_queue' =
                 Append(audio_feature_queue,
                        [n |-> MelChunks(audio_frames), tick |-> tick])
            /\ audio_frames' =
                 Min(audio_frames, audio_left_stride + audio_right_stride)
    /\ ing_pc' = "check"
    /\ slept' = TrackSleeps(video_track_queue, batch_size)
    /\ UNCHANGED <<ctlVars, message_queue, audio_input_queue,
                   audio_output_queue, result_frame_queue,
                   combined_frame_queue, video_track_queue, audio_track_queue,
                   stop_infer, ing_i, ing_flush, tick, ttsVars, lipVars,
                   merge_pc, pump_pc, reflVars, cv_frames, track_tail, sideVars>>

\* -------------------------------------------------------- inference stage
\* the counter left where it was
NextIndex_stuck(i) == i

\* lip_sync: index = index + 1 after each ResultFrame
NextIndex(i) == i + 1

\* slot i paired with chunks i and i + 1
ResultFrame_overlap(px, ix, chunks, i) ==
    [pixels |-> px,
     face |-> IF px THEN lip_faces[i + 1] ELSE -1,
     frameIndex |-> reflection(face_frames_len, ix),
     audio |-> SubSeq(chunks, i + 1, i + 2)]

\* the ResultFrame of slot i: pixels (TRUE for a predicted crop, FALSE for
\* None), the reflected frame index, and audio_frames[i*2 : i*2+2]; face
\* is the base-frame index of the face pred[i] was predicted from
ResultFrame(px, ix, chunks, i) ==
    [pixels |-> px,
     face |-> IF px THEN lip_faces[i + 1] ELSE -1,
     frameIndex |-> reflection(face_frames_len, ix),
     audio |-> SubSeq(chunks, 2 * i + 1, 2 * i + 2)]

\* lip_sync: the loop test finds the event set
LipExit ==
    /\ lip_pc = "getmel"
    /\ quit
    /\ lip_pc' = "done"
    /\ UNCHANGED <<ctlVars, queueVars, stop_infer, ingVars, ttsVars, lip_mel,
                   lip_audio, lip_speech, lip_n, lip_i, index, nput, lip_faces,
                   merge_pc, pump_pc, reflVars, auxVars>>

\* audio_feature_queue.get(block=True, timeout=1); on timeout, continue
GetMel ==
    /\ lip_pc = "getmel"
    /\ audio_feature_queue # <<>>
    /\ lip_mel' = Head(audio_feature_queue).n
    /\ audio_feature_queue' = Tail(audio_feature_queue)
    /\ lip_audio' = <<>>
    /\ lip_speech' = FALSE
    /\ lip_faces' = <<>>
    /\ lip_pc' = "getaudio"
    /\ UNCHANGED <<ctlVars, message_queue, audio_input_queue,
                   audio_output_queue, result_frame_queue,
                   combined_frame_queue, video_track_queue, audio_track_queue,
                   stop_infer, ingVars, ttsVars, lip_n, lip_i, index, nput,
                   merge_pc, pump_pc, reflVars, auxVars>>

\* is_no_speech decided by the last chunk of the batch alone
GetAudio_last ==
    /\ lip_pc = "getaudio"
    /\ audio_output_queue # <<>>
    /\ audio_output_queue' = Tail(audio_output_queue)
    /\ lip_audio' = Append(lip_audio, Head(audio_output_queue))
    /\ lip_speech' = IsTalking(Head(audio_output_queue))
    /\ IF Len(lip_audio) + 1 < batch_size * 2
       THEN /\ lip_pc' = "getaudio"
            /\ UNCHANGED <<lip_n, lip_i>>
       ELSE IF IsTalking(Head(audio_output_queue))
       THEN /\ lip_pc' = "infer"
            /\ UNCHANGED <<lip_n, lip_i>>
       ELSE /\ lip_pc' = "put"
            /\ lip_n' = batch_size
            /\ lip_i' = 0
    /\ UNCHANGED <<ctlVars, message_queue, audio_input_queue,
                   audio_feature_queue, result_frame_queue,
                   combined_frame_queue, video_track_queue, audio_track_queue,
                   stop_infer, ingVars, ttsVars, lip_mel, index, nput,
                   lip_faces, merge_pc, pump_pc, reflVars, auxVars>>

\* one audio_output_queue.get() of the batch_size * 2 (no timeout: it waits
\* while the queue is empty); after the last one the branch is taken
GetAudio ==
    /\ lip_pc = "getaudio"
    /\ audio_output_queue # <<>>
    /\ audio_output_queue' = Tail(audio_output_queue)
    /\ lip_audio' = Append(lip_audio, Head(audio_output_queue))
    /\ lip_speech' = (lip_speech \/ IsTalking(Head(audio_output_queue)))
    /\ IF Len(lip_audio) + 1 < batch_size * 2
       THEN /\ lip_pc' = "getaudio"
            /\ UNCHANGED <<lip_n, lip_i>>
       ELSE IF lip_speech \/ IsTalking(Head(audio_output_queue))
       THEN /\ lip_pc' = "infer"
            /\ UNCHANGED <<lip_n, lip_i>>
       ELSE /\ lip_pc' = "put"
            /\ lip_n' = batch_size
            /\ lip_i' = 0
    /\ UNCHANGED <<ctlVars, message_queue, audio_input_queue,
                   audio_feature_queue, result_frame_queue,
                   combined_frame_queue, video_track_queue, audio_track_queue,
                   stop_infer, ingVars, ttsVars, lip_mel, index, nput,
                   lip_faces, merge_pc, pump_pc, reflVars, auxVars>>

\* the face gathered by wrapping around
FaceIndex_wrap(start, i) == (start + i) % face_frames_len

\* _run_lipsync_inference lines 255-258: the face of slot i is
\* face_frames[reflection(face_frames_len, start_index + i)]
FaceIndex(start, i) == reflection(face_frames_len, start + i)

\* _run_lipsync_inference: batch_size faces are gathered; the model call
\* returns one predicted crop per face of the batch (ok), or raises: nothing
\* in lip_sync or start() catches it, so the thread of the inference stage
\* ends
Infer(ok) ==
    /\ lip_pc = "infer"
    /\ lip_faces' = [i \in 1..batch_size |-> FaceIndex(index, i - 1)]
    /\ IF ok
       THEN /\ lip_pc' = "put"
            /\ lip_n' = batch_size
            /\ lip_i' = 0
       ELSE /\ lip_pc' = "raised"
            /\ UNCHANGED <<lip_n, lip_i>>
    /\ UNCHANGED <<ctlVars, queueVars, stop_infer, ingVars, ttsVars, lip_mel,
                   lip_audio, lip_speech, index, nput, merge_pc, pump_pc,
                   reflVars, auxVars>>

\* one result_frame_queue.put (no timeout: it waits while the queue holds
\* batch_size * 2 frames), then index = index + 1
ResultPutBlocked == Len(result_frame_queue) >= ResultQueueDepth

PutResult ==
    /\ lip_pc = "put"
    /\ ~ResultPutBlocked
    /\ result_frame_queue' =
         Append(result_frame_queue,
                ResultFrame(lip_speech, index, lip_audio, lip_i))
    /\ index' = NextIndex(index)
    /\ nput' = nput + 1
    /\ lip_i' = lip_i + 1
    /\ lip_pc' = IF lip_i + 1 < lip_n THEN "put" ELSE AfterLoop("getmel")
    /\ UNCHANGED <<ctlVars, message_queue, audio_input_queue,
                   audio_output_queue, audio_feature_queue,
                   combined_frame_queue, video_track_queue, audio_track_queue,
                   stop_infer, ingVars, ttsVars, lip_mel, lip_audio,
                   lip_speech, lip_n, lip_faces, merge_pc, pump_pc, reflVars,
                   auxVars>>

\* -------------------------------------------------------------- compositor
\* the crop pasted whatever the chunks say
Composite_paste(f) ==
    [image |-> "pasted", crop |-> f.face, frameIndex |-> f.frameIndex,
     audio |-> f.audio]

\* merge_video_audio: neither paired chunk TALKING -> cv_frames[idx] as it
\* is; otherwise the predicted crop is pasted into a copy of cv_frames[idx]
\* at coords_list[idx] (crop: the face the pasted crop was predicted from)
Composite(f) ==
    [image |-> IF ~IsTalking(f.audio[1]) /\ ~IsTalking(f.audio[2])
               THEN "base" ELSE "pasted",
     crop |-> IF ~IsTalking(f.audio[1]) /\ ~IsTalking(f.audio[2])
              THEN -1 ELSE f.face,
     frameIndex |-> f.frameIndex,
     audio |-> f.audio]

\* merge_video_audio: the loop test finds the event set
MergeExit ==
    /\ merge_pc = "get"
    /\ quit
    /\ merge_pc' = "done"
    /\ UNCHANGED <<ctlVars, queueVars, stop_infer, ingVars, ttsVars, lipVars,
                   pump_pc, reflVars, auxVars>>

\* result_frame_queue.get(block=True, timeout=1), the composition and the put
\* on the (unbounded) combined-frame queue
Merge ==
    /\ merge_pc = "get"
    /\ result_frame_queue # <<>>
    /\ result_frame_queue' = Tail(result_frame_queue)
    /\ combined_frame_queue' =
         Append(combined_frame_queue, Composite(Head(result_frame_queue)))
    /\ merge_pc' = AfterLoop("get")
    /\ UNCHANGED <<ctlVars, message_queue, audio_input_queue,
                   audio_output_queue, audio_feature_queue, video_track_queue,
                   audio_track_queue, stop_infer, ingVars, ttsVars, lipVars,
                   pump_pc, reflVars, auxVars>>

\* a resize failure that ends the compositor thread
MergeSkip_fatal ==
    /\ merge_pc = "get"
    /\ result_frame_queue # <<>>
    /\ \/ IsTalking(Head(result_frame_queue).audio[1])
       \/ IsTalking(Head(result_frame_queue).audio[2])
    /\ result_frame_queue' = Tail(result_frame_queue)
    /\ merge_pc' = "raised"
    /\ UNCHANGED <<ctlVars, message_queue, audio_input_queue,
                   audio_output_queue, audio_feature_queue,
                   combined_frame_queue, video_track_queue,
                   audio_track_queue, stop_infer, ingVars, ttsVars, lipVars,
                   pump_pc, reflVars, auxVars>>

\* merge_video_audio, a paired chunk TALKING and cv2.resize raising (a box of
\* coords_list with no area, a crop that is no image): the frame and its two
\* audio chunks are dropped, nothing is put
MergeSkip ==
    /\ merge_pc = "get"
    /\ result_frame_queue # <<>>
    /\ \/ IsTalking(Head(result_frame_queue).audio[1])
       \/ IsTalking(Head(result_frame_queue).audio[2])
    /\ result_frame_queue' = Tail(result_frame_queue)
    /\ merge_pc' = AfterLoop("get")
    /\ UNCHANGED <<ctlVars, message_queue, audio_input_queue,
                   audio_output_queue, audio_feature_queue,
                   combined_frame_queue, video_track_queue,
                   audio_track_queue, stop_infer, ingVars, ttsVars, lipVars,
                   pump_pc, reflVars, auxVars>>

\* ---------------------------------------------------------- transport pump
\* WebRTCAvatar.webrtc: the loop test finds the event set
PumpExit ==
    /\ pump_pc = "get"
    /\ quit
    /\ pump_pc' = "done"
    /\ UNCHANGED <<ctlVars, queueVars, stop_infer, ingVars, ttsVars, lipVars,
                   merge_pc, reflVars, auxVars>>

\* WebRTCAvatar.webrtc: combined_frame_queue.get(block=True, timeout=1);
\* image[0, :] &= 0xFE is done in place on the array that was queued, which
\* on the silence path is the stored full frame itself; then one video frame
\* and the paired audio frames are queued on the tracks
Pump ==
    /\ pump_pc = "get"
    /\ combined_frame_queue # <<>>
    /\ combined_frame_queue' = Tail(combined_frame_queue)
    /\ cv_frames' =
         IF Head(combined_frame_queue).image = "base"
         THEN [cv_frames EXCEPT
                 ![Head(combined_frame_queue).frameIndex] = ClearLsb(@)]
         ELSE cv_frames
    /\ video_track_queue' = video_track_queue + 1
    /\ track_tail' = Head(combined_frame_queue)
    /\ audio_track_queue' =
         audio_track_queue + Len(Head(combined_frame_queue).audio)
    /\ pump_pc' = AfterLoop("get")
    /\ UNCHANGED <<ctlVars, message_queue, audio_input_queue,
                   audio_output_queue, audio_feature_queue,
                   result_frame_queue, stop_infer, ingVars, ttsVars, lipVars,
                   merge_pc, reflVars, slept, sideVars>>

\* ------------------------------------------------------------ frame pacer
\* the wait of the first frame forgotten: one period too few
PaceWait_behind(start, k, ptime, t) == start + (k - 1) * ptime - t

\* recv: wait = start_time + frame_count * PTIME - time.time()
PaceWait(start, k, ptime, t) == start + k * ptime - t

QueueOf(t) == IF t = "video" THEN video_track_queue ELSE audio_track_queue

\* time passes
ClockTick ==
    /\ now < MaxNow
    /\ now' = now + 1
    /\ UNCHANGED <<ctlVars, queueVars, stop_infer, ingVars, ttsVars, lipVars,
                   merge_pc, pump_pc, reflVars, cv_frames, track_tail, slept,
                   trk, sliceVars, sessVars>>

\* AudioTrack.recv / VideoTrack.recv up to its await asyncio.sleep: the frame
\* is taken from the track queue (recv waits there while the queue is
\* empty); the first call records start_time and returns, a later call
\* counts the frame and sleeps when its time has not come
RecvGet(t) ==
    /\ trk[t].pc = "idle"
    /\ QueueOf(t) > 0
    /\ video_track_queue' =
         IF t = "video" THEN video_track_queue - 1 ELSE video_track_queue
    /\ audio_track_queue' =
         IF t = "audio" THEN audio_track_queue - 1 ELSE audio_track_queue
    /\ IF trk[t].has_ts
       THEN LET k == trk[t].frame_count + 1
                wait == PaceWait(trk[t].start_time, k, PTime(t), now)
            IN  trk' = [trk EXCEPT ![t] =
                    [@ EXCEPT !.timestamp = @ + PtsStep(t),
                              !.frame_count = k,
                              !.pc = IF wait > 0 THEN "sleep" ELSE "idle",
                              !.wake = IF wait > 0 THEN now + wait ELSE @,
                              !.returned = IF wait > 0 THEN @ ELSE now,
                              !.pts = IF wait > 0
                                      THEN @ ELSE trk[t].timestamp + PtsStep(t)]]
       ELSE trk' = [trk EXCEPT ![t] =
                    [@ EXCEPT !.has_ts = TRUE,
                              !.start_time = now,
                              !.timestamp = 0,
                              !.returned = now,
                              !.pts = 0]]
    /\ UNCHANGED <<ctlVars, message_queue, audio_input_queue,
                   audio_output_queue, audio_feature_queue,
                   result_frame_queue, combined_frame_queue, stop_infer,
                   ingVars, ttsVars, lipVars, merge_pc, pump_pc, reflVars,
                   cv_frames, track_tail, slept, now, sliceVars, sessVars>>

\* await asyncio.sleep(wait) is over (it never ends early): recv returns
RecvWake(t) ==
    /\ trk[t].pc = "sleep"
    /\ now >= trk[t].wake
    /\ trk' = [trk EXCEPT ![t] =
                [@ EXCEPT !.pc = "idle", !.returned = now,
                          !.pts = trk[t].timestamp]]
    /\ UNCHANGED <<ctlVars, queueVars, stop_infer, ingVars, ttsVars, lipVars,
                   merge_pc, pump_pc, reflVars, cv_frames, track_tail, slept,
                   now, sliceVars, sessVars>>

\* ------------------------------------------------------------ TTS slicing
\* The resampled provider chunk is a signal of sl_total samples; sample i
\* (i = 1, 2, ...) is written i, a zero of the padding 0.
\* stream[start : start + n] laid into np.zeros(chunk_size)
Piece(start, n) ==
    [j \in 1..audio_chunk_size |-> IF j <= n THEN start + j ELSE 0]

\* stream_tts of both adapters, the while loop: one full piece is put
SlicePut ==
    /\ sl_pc = "loop"
    /\ sl_length >= audio_chunk_size
    /\ sl_out' = Append(sl_out, Piece(sl_index, audio_chunk_size))
    /\ sl_length' = sl_length - audio_chunk_size
    /\ sl_index' = sl_index + audio_chunk_size
    /\ UNCHANGED <<sl_adapter, sl_total, sl_pc>>
    /\ UNCHANGED <<ctlVars, queueVars, stop_infer, ingVars, ttsVars, lipVars,
                   merge_pc, pump_pc, reflVars, cv_frames, track_tail, slept,
                   paceVars, sessVars>>

\* OpenAICompatibleTTSModule.stream_tts lines 106-113: the rest of the
\* signal, shorter than a piece, is put zero-padded
SliceRest ==
    /\ sl_pc = "loop"
    /\ sl_adapter = "openai"
    /\ sl_length < audio_chunk_size
    /\ sl_length > 0
    /\ sl_out' = Append(sl_out, Piece(sl_index, sl_length))
    /\ sl_pc' = "done"
    /\ UNCHANGED <<sl_adapter, sl_total, sl_index, sl_length>>
    /\ UNCHANGED <<ctlVars, queueVars, stop_infer, ingVars, ttsVars, lipVars,
                   merge_pc, pump_pc, reflVars, cv_frames, track_tail, slept,
                   paceVars, sessVars>>

\* the provider chunk is done with: nothing is left (either adapter), or
\* KokoroTTSModule.stream_tts leaves its while loop, which is all it has
SliceEnd ==
    /\ sl_pc = "loop"
    /\ sl_length < audio_chunk_size
    /\ (sl_adapter = "kokoro" \/ sl_length = 0)
    /\ sl_pc' = "done"
    /\ UNCHANGED <<sl_adapter, sl_total, sl_index, sl_length, sl_out>>
    /\ UNCHANGED <<ctlVars, queueVars, stop_infer, ingVars, ttsVars, lipVars,
                   merge_pc, pump_pc, reflVars, cv_frames, track_tail, slept,
                   paceVars, sessVars>>

\* ------------------------------------------------------- session registry
\* Streamers and peer connections are numbered by the offer that made them.
\* the handlers' `if session_id in avatars: avatars[session_id].stop();
\* del avatars[session_id]`
StopAndRemove(sid) ==
    IF avatars[sid] # 0
    THEN /\ strm' = [strm EXCEPT ![avatars[sid]] = "stopped"]
         /\ avatars' = [avatars EXCEPT ![sid] = 0]
    ELSE UNCHANGED <<strm, avatars>>

\* offer(): the session id is read from the config file or drawn, a peer
\* connection is made whose handler keeps that id, a WebRTCAvatar is made
\* and started, and avatars[session_id] is assigned
Offer(sid) ==
    /\ noffers < MaxOffers
    /\ noffers' = noffers + 1
    /\ pc_sid' = [pc_sid EXCEPT ![noffers + 1] = sid]
    /\ pc_state' = [pc_state EXCEPT ![noffers + 1] = "new"]
    /\ strm' = [strm EXCEPT ![noffers + 1] = "running"]
    /\ avatars' = [avatars EXCEPT ![sid] = noffers + 1]
    /\ UNCHANGED <<ctlVars, queueVars, stop_infer, ingVars, ttsVars, lipVars,
                   merge_pc, pump_pc, reflVars, cv_frames, track_tail, slept,
                   paceVars, sliceVars>>

\* on_connectionstatechange, connectionState == "connected": a log line
Connected(k) ==
    /\ pc_state[k] = "new"
    /\ pc_state' = [pc_state EXCEPT ![k] = "connected"]
    /\ UNCHANGED <<avatars, pc_sid, strm, noffers>>
    /\ UNCHANGED <<ctlVars, queueVars, stop_infer, ingVars, ttsVars, lipVars,
                   merge_pc, pump_pc, reflVars, cv_frames, track_tail, slept,
                   paceVars, sliceVars>>

\* on_connectionstatechange, connectionState == "failed": pc.close(), then
\* the session registered under the handler's id is stopped and removed
Failed(k) ==
    /\ pc_state[k] \in {"new", "connected"}
    /\ pc_state' = [pc_state EXCEPT ![k] = "failed"]
    /\ StopAndRemove(pc_sid[k])
    /\ UNCHANGED <<pc_sid, noffers>>
    /\ UNCHANGED <<ctlVars, queueVars, stop_infer, ingVars, ttsVars, lipVars,
                   merge_pc, pump_pc, reflVars, cv_frames, track_tail, slept,
                   paceVars, sliceVars>>

\* on_connectionstatechange, connectionState == "closed" (the peer hung up,
\* or the close() of the failed branch): the same stop and removal
Closed(k) ==
    /\ pc_state[k] \in {"new", "connected", "failed"}
    /\ pc_state' = [pc_state EXCEPT ![k] = "closed"]
    /\ StopAndRemove(pc_sid[k])
    /\ UNCHANGED <<pc_sid, noffers>>
    /\ UNCHANGED <<ctlVars, queueVars, stop_infer, ingVars, ttsVars, lipVars,
                   merge_pc, pump_pc, reflVars, cv_frames, track_tail, slept,
                   paceVars, sliceVars>>

\* ------------------------------------------------------------- reflection
\* reflection applied to the next index of a frame array of the chosen size
Reflect ==
    /\ idx < MaxIndex
    /\ idx' = idx + 1
    /\ res' = reflection(size, idx + 1)
    /\ UNCHANGED <<size, ctlVars, queueVars, stop_infer, ingVars, ttsVars,
                   lipVars, merge_pc, pump_pc, auxVars>>

ReflectInit ==
    /\ PipelineInit(BatchSize, N, MaxTicks)
    /\ size \in 1..MaxSize
    /\ idx = 0
    /\ res = reflection(size, 0)
    /\ SideIdle

ReflectSpec == ReflectInit /\ [][Reflect]_vars

\* ---------------------------------------------------------- specification
Control ==
    \/ Start
    \/ \E len \in 0..1 : Speak(len)
    \/ TtsStop
    \/ AvatarStop
    \/ StopTrack
    \/ Join

TtsWorker ==
    \/ TtsExit
    \/ \E ok \in BOOLEAN, pieces \in 0..MaxPieces : TtsGet(ok, pieces)
    \/ StreamTts

Ingestion ==
    \/ Spawn
    \/ StreamCheck
    \/ Slot
    \/ Unflush
    \/ PutMel

LipSync ==
    \/ LipExit
    \/ GetMel
    \/ GetAudio
    \/ \E ok \in BOOLEAN : Infer(ok)
    \/ PutResult

Compositor == MergeExit \/ Merge \/ MergeSkip

Transport == PumpExit \/ Pump

Next ==
    \/ Control
    \/ TtsWorker
    \/ Ingestion
    \/ LipSync
    \/ Compositor
    \/ Transport

Spec == Init /\ [][Next]_vars

\* The end-to-end scenario: one session with N base frames and the
\* configured batch size, one utterance whose stream slices into
\* ScenarioPieces chunks, a model call that succeeds, and an ingestion loop
\* that takes its first tick once the whole utterance is on the audio-in
\* queue.
UtteranceQueued ==
    /\ nspoken = 1
    /\ message_queue = <<>>
    /\ tts_pc = "get"

ScenarioInit ==
    /\ PipelineInit(BatchSize, N, ScenarioTicks)
    /\ size = 1 /\ idx = 0 /\ res = 0
    /\ SideIdle

ScenarioNext ==
    \/ Start
    \/ Spawn
    \/ Speak(1)
    \/ TtsGet(TRUE, ScenarioPieces)
    \/ StreamTts
    \/ (UtteranceQueued /\ StreamCheck)
    \/ Slot
    \/ PutMel
    \/ GetMel
    \/ GetAudio
    \/ Infer(TRUE)
    \/ PutResult
    \/ Merge
    \/ Pump

ScenarioSpec == ScenarioInit /\ [][ScenarioNext]_vars

\* The same scenario with a compositor whose resize can fail.
GlitchNext == ScenarioNext \/ MergeSkip

GlitchSpec == ScenarioInit /\ [][GlitchNext]_vars

\* Sessions that never speak, of every batch size up to QuietBatch, started
\* and torn down at any moment.
TeardownInit ==
    /\ \E b \in 1..QuietBatch : PipelineInit(b, N, MaxTicks)
    /\ size = 1 /\ idx = 0 /\ res = 0
    /\ SideIdle

\* the steps the workers of such a session can take
QuietWorkers ==
    \/ TtsExit
    \/ Spawn
    \/ StreamCheck
    \/ Slot
    \/ PutMel
    \/ LipExit
    \/ GetMel
    \/ GetAudio
    \/ PutResult
    \/ MergeExit
    \/ Merge
    \/ PumpExit
    \/ Pump

TeardownNext ==
    \/ Start
    \/ StopTrack
    \/ Join
    \/ QuietWorkers

TeardownSpec == TeardownInit /\ [][TeardownNext]_vars

\* The same sessions left running: nobody stops them, and every thread that
\* can take a step is scheduled again and again.
IngestionSteps == Spawn \/ StreamCheck \/ Slot \/ PutMel

LipSyncSteps == GetMel \/ GetAudio \/ PutResult

QuietRunNext ==
    \/ Start
    \/ IngestionSteps
    \/ LipSyncSteps
    \/ Merge
    \/ Pump

QuietRunSpec ==
    /\ TeardownInit
    /\ [][QuietRunNext]_vars
    /\ WF_vars(Start)
    /\ WF_vars(IngestionSteps)
    /\ WF_vars(LipSyncSteps)
    /\ WF_vars(Merge)
    /\ WF_vars(Pump)

\* Sessions of batch size 3 and up, left running for two more ticks, with an
\* inference stage that is as slow as it likes.
BackpressureInit ==
    /\ \E b \in 3..(QuietBatch + 1) : PipelineInit(b, N, MaxTicks + 2)
    /\ size = 1 /\ idx = 0 /\ res = 0
    /\ SideIdle

BackpressureSpec == BackpressureInit /\ [][QuietRunNext]_vars

\* A session that never speaks, with the configured batch size, whose tracks
\* are read by the peer connection while the clock runs.
PacerInit ==
    /\ PipelineInit(BatchSize, N, MaxTicks)
    /\ size = 1 /\ idx = 0 /\ res = 0
    /\ SideIdle

Recv ==
    \/ \E t \in Tracks : RecvGet(t)
    \/ \E t \in Tracks : RecvWake(t)

PacerNext ==
    \/ QuietRunNext
    \/ ClockTick
    \/ Recv

PacerSpec == PacerInit /\ [][PacerNext]_vars

\* One provider chunk of either adapter, of every resampled length up to
\* MaxSamples: index, stream_length = 0, stream.shape[0]
SliceInit ==
    /\ PipelineInit(BatchSize, N, MaxTicks)
    /\ size = 1 /\ idx = 0 /\ res = 0
    /\ PacerIdle /\ RegistryIdle
    /\ sl_adapter \in {"openai", "kokoro"}
    /\ sl_total \in 1..MaxSamples
    /\ sl_index = 0
    /\ sl_length = sl_total
    /\ sl_out = <<>>
    /\ sl_pc = "loop"

SliceNext == SlicePut \/ SliceRest \/ SliceEnd

SliceSpec == SliceInit /\ [][SliceNext]_vars

\* The server: offers arrive and peer connections change state.
RegistryInit ==
    /\ PipelineInit(BatchSize, N, MaxTicks)
    /\ size = 1 /\ idx = 0 /\ res = 0
    /\ SideIdle

RegistryNext ==
    \/ \E sid \in SessionIds : Offer(sid)
    \/ \E k \in 1..MaxOffers : Connected(k)
    \/ \E k \in 1..MaxOffers : Failed(k)
    \/ \E k \in 1..MaxOffers : Closed(k)

RegistrySpec == RegistryInit /\ [][RegistryNext]_vars

\* A session of a batch size up to the configured one that is spoken to
\* MaxSpeaks times and interrupted, looked at from speak() to the audio-out
\* queue: the control surface, the TTS worker and the ingestion loop.
TtsInit ==
    /\ \E b \in 1..BatchSize : SessionInit(b, N, MaxTicks, MaxSpeaks)
    /\ size = 1 /\ idx = 0 /\ res = 0
    /\ SideIdle

TtsNext ==
    \/ Start
    \/ \E len \in 0..1 : Speak(len)
    \/ TtsStop
    \/ AvatarStop
    \/ \E ok \in BOOLEAN, pieces \in 0..MaxPieces : TtsGet(ok, pieces)
    \/ StreamTts
    \/ Ingestion

TtsSpec == TtsInit /\ [][TtsNext]_vars

\* ------------------------------------------------------------------ claims
\* C1: for every size > 0 and index >= 0, reflection(size, index) lies in
\* [0, size) and is index mod size when index div size is even, and
\* size - (index mod size) - 1 when it is odd.
C1_ReflectionInRangeAndFormula ==
    /\ res >= 0
    /\ res < size
    /\ ((idx \div size) % 2 = 0 => res = idx % size)
    /\ ((idx \div size) % 2 = 1 => res = size - (idx % size) - 1)

\* an index on the way back (index div size odd) has been reflected
C1_Witness == size = 5 /\ idx = 7 /\ res = 2

\* C2: the sequence reflection(size, 0), reflection(size, 1), ... goes up by
\* one at every step inside [0, size), down by one at every step inside
\* [size, 2*size), repeats with period 2*size, and never moves by more than
\* one between consecutive indices; for size 5 the values at 4, 5, 9, 10 are
\* 4, 4, 0, 0.
C2_Step ==
    LET p == idx' % (2 * size)
    IN  /\ (p >= 1 /\ p < size => res' = res + 1)
        /\ (p > size => res' = res - 1)
        /\ res' - res <= 1
        /\ res - res' <= 1

C2_Values ==
    /\ reflection(size, idx + 2 * size) = res
    /\ (size = 5 /\ idx = 4 => res = 4)
    /\ (size = 5 /\ idx = 5 => res = 4)
    /\ (size = 5 /\ idx = 9 => res = 0)
    /\ (size = 5 /\ idx = 10 => res = 0)

C2_TriangleWave == []C2_Values /\ [][C2_Step]_vars

\* the second turn of the wave for size 5: index 10 is back at frame 0
C2_Witness == size = 5 /\ idx = 10 /\ res = 0

Last(q) == q[Len(q)]

\* a ResultFrame was put on the result-frame queue by this step
ResultFramePut == nput' = nput + 1

\* a chunk was put on the audio-out queue by this step
ChunkEmitted == Len(audio_output_queue') > Len(audio_output_queue)

\* C3: in the end-to-end scenario (N = 3, batch size 2, one utterance of 4
\* chunks and its flush chunk) exactly the first two ResultFrames carry
\* pixels, at frame indices 0 and 1, and every later ResultFrame is a
\* silence frame.
C3_Step ==
    ResultFramePut =>
        /\ (Last(result_frame_queue').pixels <=> nput < 2)
        /\ (nput < 2 => Last(result_frame_queue').frameIndex = nput)

C3_TwoInferenceFrames == [][C3_Step]_vars

\* C4: once the soft stop has returned, every chunk the ingestion stage
\* emits in a tick that began after the stop is SILENT, and the message
\* queue holds nothing spoken before the stop.  The chunks looked at are the
\* speech chunks of the utterances spoken before the stop: what a later
\* speak() brings, and the flush chunk of C7, are left aside.
C4_Step ==
    (ChunkEmitted /\ stop_tick >= 0 /\ tick > stop_tick
        /\ Last(audio_output_queue').kind = "speech"
        /\ Last(audio_output_queue').utt <= stop_utt)
    => Last(audio_output_queue').state = "SILENT"

C4_Queue ==
    stop_tick >= 0 => \A i \in 1..Len(message_queue) : message_queue[i] > stop_utt

C4_StopSilences == []C4_Queue /\ [][C4_Step]_vars

\* C5: with the cancellation event set, every worker that has not exited
\* can still take a step (none is left waiting on a put or a get that no
\* thread will ever serve).
WorkersDone ==
    /\ ing_pc = "done" /\ tts_pc = "done" /\ lip_pc = "done"
    /\ merge_pc = "done" /\ pump_pc = "done"

C5_EveryWorkerExits == quit => (WorkersDone \/ ENABLED QuietWorkers)

\* C6: when WebRTCAvatar.stop() has returned, every worker of the session
\* has terminated.
C6_StopJoinsEveryWorker == ctl_pc = "stopped" => WorkersDone

\* C7: a chunk handled for an utterance is tagged TALKING unless it is the
\* utterance's all-zero flush chunk, which is not tagged TALKING.
C7_FlushNotTalking ==
    \A i \in 1..Len(audio_output_queue) :
        LET c == audio_output_queue[i]
        IN  /\ (c.kind = "speech" => c.state = "TALKING")
            /\ (c.kind = "flush" => c.state # "TALKING")

\* C8: when the model call has raised, the session is torn down (its
\* cancellation event is set) and no part of the batch was emitted.
C8_InferenceFailureIsFatal ==
    lip_pc = "raised" =>
        /\ quit
        /\ nput % batch_size = 0

\* C9: an utterance the provider refused leaves nothing in the pipeline: no
\* chunk of it is on the audio-in or the audio-out queue.
C9_FailedUtteranceDropped ==
    \A u \in 1..MaxUtt :
        resp[u] = "failed" =>
            /\ \A i \in 1..Len(audio_input_queue) : audio_input_queue[i].utt # u
            /\ \A i \in 1..Len(audio_output_queue) : audio_output_queue[i].utt # u

\* C10: the k-th ResultFrame put on the result-frame queue (k = 0, 1, ...)
\* carries frameIndex reflection(face_frames_len, k), through silent batches
\* and inference batches alike.
C10_Step ==
    ResultFramePut =>
        Last(result_frame_queue').frameIndex = reflection(face_frames_len, nput)

C10_SequentialFrameIndex == [][C10_Step]_vars

\* a silent batch and then an inference batch are on the result-frame queue,
\* the fourth frame reflected back onto the last base frame
C10_Witness ==
    /\ nput = 4
    /\ Len(result_frame_queue) = 4
    /\ ~result_frame_queue[1].pixels
    /\ result_frame_queue[4].pixels
    /\ result_frame_queue[4].frameIndex = 2

\* the place in the chunk stream of the first chunk paired with frame f
FrameKey(f) == f.audio[1].tick * (2 * batch_size) + f.audio[1].slot

\* f carries two consecutive chunks of one tick, the first at an even slot
Paired(f) ==
    /\ Len(f.audio) = 2
    /\ f.audio[1].tick = f.audio[2].tick
    /\ f.audio[1].slot % 2 = 0
    /\ f.audio[2].slot = f.audio[1].slot + 1

\* the frames between the inference stage and the tracks, oldest first
InFlight == combined_frame_queue \o result_frame_queue

\* the frames recv() has taken from track t so far
Taken(t) == IF trk[t].has_ts THEN trk[t].frame_count + 1 ELSE 0

\* the frames the pump has queued on track t so far
Queued(t) == QueueOf(t) + Taken(t)

\* C11: composite frames reach the tracks in the order their ResultFrames
\* were produced, each with the two chunks the inference stage paired with it
\* (chunks 2i and 2i+1 of its batch for slot i); the pump queues one video
\* frame and those two audio frames, so the audio track has been given twice
\* as many frames as the video track.
C11_Order ==
    /\ Queued("audio") = 2 * Queued("video")
    /\ \A i \in 1..Len(InFlight) : Paired(InFlight[i])
    /\ \A i \in 1..(Len(InFlight) - 1) :
           FrameKey(InFlight[i]) < FrameKey(InFlight[i + 1])
    /\ (track_tail # NoFrame /\ InFlight # <<>>) =>
           FrameKey(track_tail) < FrameKey(InFlight[1])

C11_Step ==
    /\ ResultFramePut =>
           /\ Last(result_frame_queue').audio[1] = lip_audio[2 * lip_i + 1]
           /\ Last(result_frame_queue').audio[2] = lip_audio[2 * lip_i + 2]
    /\ Len(combined_frame_queue') > Len(combined_frame_queue) =>
           /\ Last(combined_frame_queue').audio = Head(result_frame_queue).audio
           /\ Last(combined_frame_queue').frameIndex =
                  Head(result_frame_queue).frameIndex
           /\ result_frame_queue' = Tail(result_frame_queue)
    /\ Queued("video")' # Queued("video") =>
           /\ Queued("video")' = Queued("video") + 1
           /\ Queued("audio")' = Queued("audio") + 2
           /\ track_tail' = Head(combined_frame_queue)
           /\ combined_frame_queue' = Tail(combined_frame_queue)

AllSilent(chunks) == \A i \in 1..Len(chunks) : ~IsTalking(chunks[i])

\* C12: a batch whose 2 * batch_size chunks are all SILENT gets no inference
\* call and batch_size ResultFrames without pixels, and for each of them the
\* compositor puts the stored full frame of that frameIndex, as it is.
C12_NoCall ==
    /\ lip_pc = "infer" => ~AllSilent(lip_audio)
    /\ (lip_pc = "put" /\ AllSilent(lip_audio)) =>
           (lip_n = batch_size /\ lip_i < batch_size)

C12_Step ==
    /\ (ResultFramePut /\ AllSilent(lip_audio)) =>
           ~Last(result_frame_queue').pixels
    /\ (merge_pc = "get" /\ result_frame_queue # <<>>
          /\ result_frame_queue' = Tail(result_frame_queue)
          /\ ~Head(result_frame_queue).pixels) =>
           /\ Len(combined_frame_queue') = Len(combined_frame_queue) + 1
           /\ Last(combined_frame_queue').image = "base"
           /\ Last(combined_frame_queue').frameIndex =
                  Head(result_frame_queue).frameIndex
           /\ cv_frames' = cv_frames

C12_SilentBatchReusesBaseFrame == []C12_NoCall /\ [][C12_Step]_vars

\* a silent batch and a spoken batch have both been composited
C12_Witness ==
    /\ Len(combined_frame_queue) = 4
    /\ combined_frame_queue[1].image = "base"
    /\ combined_frame_queue[2].image = "base"
    /\ combined_frame_queue[4].image = "pasted"

\* C13: the stored full frames are read-only after construction: every pixel
\* of every stored frame stays what load_avatar read.
C13_BaseFramesReadOnly ==
    \A i \in 0..(face_frames_len - 1) : cv_frames[i] = LoadedPixel(i)

\* C14: the mel-feature queue never holds more than 2 batches and the
\* result-frame queue never more than 2 * batch_size frames; a producer that
\* finds its queue full cannot put (it waits, nothing is dropped); the only
\* changes of either queue are a put at the tail and the consumer's get of
\* the head; and on a session that is left running every batch and frame
\* put is dequeued later.
C14_Capacity ==
    /\ Len(audio_feature_queue) <= MelQueueDepth
    /\ Len(result_frame_queue) <= ResultQueueDepth
    /\ (ing_pc = "mel" /\ MelPutBlocked) => ~ENABLED PutMel
    /\ (lip_pc = "put" /\ ResultPutBlocked) => ~ENABLED PutResult

C14_Step ==
    /\ audio_feature_queue' # audio_feature_queue =>
         \/ /\ Len(audio_feature_queue) < MelQueueDepth
            /\ Len(audio_feature_queue') = Len(audio_feature_queue) + 1
            /\ SubSeq(audio_feature_queue', 1, Len(audio_feature_queue)) =
                   audio_feature_queue
         \/ /\ audio_feature_queue # <<>>
            /\ audio_feature_queue' = Tail(audio_feature_queue)
            /\ lip_mel' = Head(audio_feature_queue).n
    /\ result_frame_queue' # result_frame_queue =>
         \/ /\ Len(result_frame_queue) < ResultQueueDepth
            /\ Len(result_frame_queue') = Len(result_frame_queue) + 1
            /\ SubSeq(result_frame_queue', 1, Len(result_frame_queue)) =
                   result_frame_queue
         \/ /\ result_frame_queue # <<>>
            /\ result_frame_queue' = Tail(result_frame_queue)
            /\ Last(combined_frame_queue').frameIndex =
                   Head(result_frame_queue).frameIndex
            /\ Last(combined_frame_queue').audio =
                   Head(result_frame_queue).audio

\* the mel batch of tick t is on the mel-feature queue
MelBatchQueued(t) ==
    \E i \in 1..Len(audio_feature_queue) : audio_feature_queue[i].tick = t

C14_Drained ==
    /\ \A t \in 1..MaxTicks : MelBatchQueued(t) ~> ~MelBatchQueued(t)
    /\ \A k \in 1..(MaxTicks * QuietBatch) :
           (nput >= k) ~> (nput - Len(result_frame_queue) >= k)

C15_Slots ==
    /\ ing_pc = "slot" => (ing_i < 2 * batch_size /\ ENABLED Slot)
    /\ ing_pc = "mel" => ing_i = 2 * batch_size

C15_Step ==
    (ing_pc = "slot" /\ ing_i' # ing_i /\ ~ing_flush /\ audio_input_queue = <<>>)
    => /\ ing_i' = ing_i + 1
       /\ Len(audio_output_queue') = Len(audio_output_queue) + 1
       /\ SubSeq(audio_output_queue', 1, Len(audio_output_queue)) =
              audio_output_queue
       /\ Last(audio_output_queue').state = "SILENT"
       /\ Last(audio_output_queue').zeros
       /\ Last(audio_output_queue').samples = audio_chunk_size
       /\ Last(audio_output_queue').tick = tick
       /\ audio_input_queue' = <<>>

C15_EmptyTickIsSilent == []C15_Slots /\ [][C15_Step]_vars

\* a whole tick of batch size 3 has gone by with nothing on the audio-in
\* queue: its six chunks are on the audio-out queue
C15_Witness ==
    /\ batch_size = 3
    /\ ing_pc = "mel"
    /\ tick = 1
    /\ Len(audio_output_queue) = 6
    /\ \A i \in 1..6 :
          /\ audio_output_queue[i].state = "SILENT"
          /\ audio_output_queue[i].slot = i - 1

\* C16: on either track the first recv() returns its frame at once and
\* records start_time; the k-th later recv() (k >= 1) is still inside recv
\* before start_time + k * PTIME and returns no earlier, however many frames
\* are queued.
C16_Paced ==
    \A t \in Tracks :
        /\ (trk[t].frame_count >= 1 /\ trk[t].pc = "idle") =>
               trk[t].returned >= trk[t].start_time + trk[t].frame_count * PTime(t)
        /\ (trk[t].frame_count >= 1
              /\ now < trk[t].start_time + trk[t].frame_count * PTime(t)) =>
               trk[t].pc = "sleep"

C16_Step ==
    \A t \in Tracks :
        (~trk[t].has_ts /\ trk'[t].has_ts) =>
            /\ trk'[t].pc = "idle"
            /\ trk'[t].start_time = now
            /\ trk'[t].returned = now
            /\ trk'[t].frame_count = 0

C16_NeverAheadOfClock == []C16_Paced /\ [][C16_Step]_vars

\* the video track has returned its third frame, two periods after the
\* first, with the fourth already queued, and the audio track is held back
\* inside recv with frames queued
C16_Witness ==
    /\ trk["video"].frame_count = 2
    /\ trk["video"].pc = "idle"
    /\ trk["video"].returned = trk["video"].start_time + 2 * VIDEO_PTIME
    /\ video_track_queue = 1
    /\ trk["audio"].pc = "sleep"
    /\ audio_track_queue > 3

\* C17: after each ingestion tick the producer sleeps exactly when the video
\* track queue holds more than 1.5 * batch_size frames; at 1.5 * batch_size
\* frames or fewer it goes on without sleeping.
C17_Step ==
    (ing_pc = "mel" /\ ing_pc' = "check") =>
        (slept' <=> 2 * video_track_queue > 3 * batch_size)

C17_SleepsOnlyAboveThreshold == [][C17_Step]_vars

\* C18: slicing loses no sample. For a provider chunk of L resampled
\* samples either adapter puts ceil(L / audio_chunk_size) pieces of exactly
\* audio_chunk_size samples; laid end to end they are the signal followed by
\* zeros.
C18_SlicingLosesNoSample ==
    sl_pc = "done" =>
        /\ Len(sl_out) =
               (sl_total + audio_chunk_size - 1) \div audio_chunk_size
        /\ \A k \in 1..Len(sl_out) :
               \A j \in 1..audio_chunk_size :
                   sl_out[k][j] =
                       IF (k - 1) * audio_chunk_size + j <= sl_total
                       THEN (k - 1) * audio_chunk_size + j
                       ELSE 0

\* a step of llm_stop_response: tts.stop() or avatar.stop()
SoftStopStep ==
    \/ nstops' # nstops
    \/ (ctl_pc = "stopping" /\ ctl_pc' = "idle")

\* C19: the soft stop is no teardown. It leaves the cancellation event
\* unset, every worker where it was, the frame counter of the inference
\* stage and the mel-feature, audio-out and result-frame queues untouched;
\* it empties the message queue and sets the flush flag, nothing else.
C19_Step ==
    SoftStopStep =>
        /\ quit' = quit /\ ~quit'
        /\ thread' = thread
        /\ <<ing_pc, tts_pc, lip_pc, merge_pc, pump_pc>>' =
               <<ing_pc, tts_pc, lip_pc, merge_pc, pump_pc>>
        /\ index' = index /\ nput' = nput
        /\ audio_feature_queue' = audio_feature_queue
        /\ audio_output_queue' = audio_output_queue
        /\ result_frame_queue' = result_frame_queue
        /\ combined_frame_queue' = combined_frame_queue
        /\ audio_input_queue' = audio_input_queue
        /\ (nstops' # nstops =>
               (message_queue' = <<>> /\ stop_infer' = stop_infer))
        /\ (nstops' = nstops =>
               (message_queue' = message_queue /\ stop_infer'))

C19_SoftStopIsNoTeardown == [][C19_Step]_vars

\* the soft stop has returned while an utterance is being streamed, with a
\* mel batch and result frames waiting and two frames numbered
C19_Witness ==
    /\ nstops = 1
    /\ ctl_pc = "idle"
    /\ stop_infer
    /\ ~quit
    /\ tts_pc = "stream"
    /\ audio_feature_queue # <<>>
    /\ result_frame_queue # <<>>
    /\ index = 2

\* the connection of offer k goes to closed or failed in this step
ConnectionEnds(k) ==
    /\ pc_state'[k] # pc_state[k]
    /\ pc_state'[k] \in {"closed", "failed"}

\* C20: sessions are independent. A session is stopped, and its registry
\* entry is removed or replaced, only in a step in which the connection of
\* the offer that created it goes to closed or failed.
C20_Step ==
    /\ \A k \in 1..MaxOffers :
           (strm[k] = "running" /\ strm'[k] # "running") => ConnectionEnds(k)
    /\ \A sid \in SessionIds :
           (avatars[sid] # 0 /\ avatars'[sid] # avatars[sid]) =>
               ConnectionEnds(avatars[sid])

C20_SessionsIndependent == [][C20_Step]_vars

\* C21: speak() with an empty text changes nothing; with a text that is
\* not empty it appends exactly one entry, the (text, metadata) pair of the
\* call, at the tail of the message queue and changes nothing else.
C21_Calls ==
    (ctl_pc = "idle" /\ nspoken < max_utt) =>
        /\ ENABLED Speak(0)
        /\ ~ENABLED (Speak(0) /\ vars' # vars)
        /\ ENABLED Speak(1)
        /\ ~ENABLED (Speak(1) /\
                       message_queue' # Append(message_queue, nspoken + 1))

C21_Step ==
    nspoken' # nspoken =>
        /\ nspoken' = nspoken + 1
        /\ message_queue' = Append(message_queue, nspoken')
        /\ <<audio_input_queue, audio_output_queue, tts_pc, tts_utt, ing_pc,
              stop_infer, quit>>' =
           <<audio_input_queue, audio_output_queue, tts_pc, tts_utt, ing_pc,
             stop_infer, quit>>

C21_SpeakEnqueuesOnce == []C21_Calls /\ [][C21_Step]_vars

\* two utterances wait on the message queue in the order they were spoken,
\* after a call with an empty text was possible and left no trace
C21_Witness ==
    /\ nspoken = 2
    /\ message_queue = <<1, 2>>
    /\ tts_pc = "get"

\* the compositor takes the head of the result-frame queue in this step
FrameTaken ==
    /\ merge_pc = "get"
    /\ result_frame_queue # <<>>
    /\ result_frame_queue' = Tail(result_frame_queue)

\* C22: a resize failure is recoverable. The compositor then puts no
\* composite frame for the ResultFrame it took (the two chunks paired with
\* it go nowhere), stays at its loop, and composes the frames that follow as
\* usual, in order; a frame is dropped on the paste path only.
C22_Alive ==
    /\ merge_pc \in {"idle", "get"}
    /\ (merge_pc = "get" /\ result_frame_queue # <<>>) => ENABLED Merge
    /\ \A i \in 1..(Len(InFlight) - 1) :
           FrameKey(InFlight[i]) < FrameKey(InFlight[i + 1])

C22_Step ==
    FrameTaken =>
        /\ merge_pc' = "get"
        /\ \/ combined_frame_queue' =
                 Append(combined_frame_queue, Composite(Head(result_frame_queue)))
           \/ /\ combined_frame_queue' = combined_frame_queue
              /\ \/ IsTalking(Head(result_frame_queue).audio[1])
                 \/ IsTalking(Head(result_frame_queue).audio[2])
        /\ <<audio_output_queue, audio_track_queue, video_track_queue,
              lip_pc, pump_pc, quit>>' =
           <<audio_output_queue, audio_track_queue, video_track_queue,
             lip_pc, pump_pc, quit>>

C22_ResizeFailureSkipsFrame == []C22_Alive /\ [][C22_Step]_vars

\* the first ResultFrame was dropped and the second, a lip-synced one, is the
\* first frame that was composed
C22_Witness ==
    /\ track_tail = NoFrame
    /\ Len(combined_frame_queue) = 1
    /\ combined_frame_queue[1].frameIndex = 1
    /\ combined_frame_queue[1].image = "pasted"

\* the ingestion loop is inside a tick
InTick == ing_pc \in {"slot", "unflush", "mel"}

\* the newest n chunks of the audio-out queue
Newest(n) ==
    SubSeq(audio_output_queue, Len(audio_output_queue) - n + 1,
           Len(audio_output_queue))

\* C23: the tick that begins with the flush flag set (the first tick after
\* the soft stop) empties the audio-in queue with every chunk it emits, the
\* first one included, emits exactly 2 * batch_size SILENT chunks of
\* audio_chunk_size zeros and clears the flag; the tick after it is an
\* ordinary tick that reads the audio-in queue.  After a single soft stop
\* the flush tick is the first tick that begins after the stop, and no other.
C23_FlushTick ==
    /\ (InTick /\ nstops = 1) =>
          (ing_flush <=> (stop_tick >= 0 /\ tick = stop_tick + 1))
    /\ (ing_pc = "unflush" \/ (ing_pc = "mel" /\ ing_flush)) =>
          /\ ing_i = 2 * batch_size
          /\ Len(audio_output_queue) >= 2 * batch_size
          /\ \A i \in 1..(2 * batch_size) :
                 /\ Newest(2 * batch_size)[i].state = "SILENT"
                 /\ Newest(2 * batch_size)[i].zeros
                 /\ Newest(2 * batch_size)[i].samples = audio_chunk_size
                 /\ Newest(2 * batch_size)[i].tick = tick
    /\ (ing_pc = "mel" /\ ing_flush /\ nstops = 1) => ~stop_infer

C23_Step ==
    /\ (ing_pc = "check" /\ ing_pc' = "slot") => (ing_flush' <=> stop_infer)
    /\ (ing_pc = "unflush" /\ ing_pc' # ing_pc) => ~stop_infer'
    /\ (~stop_infer /\ stop_infer') => (ctl_pc = "stopping" /\ ctl_pc' = "idle")
    /\ (ing_pc = "slot" /\ ing_flush /\ ing_i' # ing_i) =>
          /\ audio_input_queue' = <<>>
          /\ Len(audio_output_queue') = Len(audio_output_queue) + 1
    /\ (ing_pc = "slot" /\ ~ing_flush /\ ing_i' # ing_i
          /\ audio_input_queue # <<>>) =>
          /\ audio_input_queue' = Tail(audio_input_queue)
          /\ Last(audio_output_queue').kind = Head(audio_input_queue).kind
          /\ Last(audio_output_queue').utt = Head(audio_input_queue).utt

C23_FlushTickSilencesAndResets == []C23_FlushTick /\ [][C23_Step]_vars

\* the flush tick has gone by and the tick after it has read a chunk of an
\* utterance from the audio-in queue
C23_Witness ==
    /\ stop_tick >= 0
    /\ tick = stop_tick + 2
    /\ ~ing_flush
    /\ ing_pc = "mel"
    /\ Newest(1)[1].kind = "speech"
    /\ Newest(1)[1].tick = tick
    /\ batch_size = 2

\* C24: utterances are synthesized one at a time, in the order of the
\* speak() calls: the worker takes the head of the message queue only when
\* it streams nothing, every chunk it puts belongs to the utterance it
\* took, the last chunk it puts for an utterance is the all-zero flush
\* chunk and no other is, and so on the audio-in queue no chunk of an
\* utterance comes after a chunk of a later one or after its own flush
\* chunk.
C24_Queue ==
    /\ \A i \in 1..(Len(message_queue) - 1) :
           message_queue[i] < message_queue[i + 1]
    /\ \A i \in 1..Len(message_queue) : message_queue[i] > tts_utt
    /\ \A i \in 1..Len(audio_input_queue) :
           /\ audio_input_queue[i].utt <= tts_utt
           /\ (audio_input_queue[i].utt = tts_utt
                 /\ audio_input_queue[i].kind = "flush") => tts_pc # "stream"
           /\ \A j \in (i + 1)..Len(audio_input_queue) :
                  /\ audio_input_queue[i].utt <= audio_input_queue[j].utt
                  /\ audio_input_queue[i].kind = "flush" =>
                         audio_input_queue[i].utt < audio_input_queue[j].utt

C24_Step ==
    /\ Len(audio_input_queue') > Len(audio_input_queue) =>
          /\ audio_input_queue' =
                 Append(audio_input_queue, Last(audio_input_queue'))
          /\ tts_pc = "stream"
          /\ Last(audio_input_queue').utt = tts_utt
          /\ (Last(audio_input_queue').kind = "flush" <=> tts_pc' # "stream")
    /\ (tts_pc = "stream" /\ tts_pc' # "stream") =>
          /\ Len(audio_input_queue') = Len(audio_input_queue) + 1
          /\ Last(audio_input_queue').kind = "flush"
    /\ tts_utt' # tts_utt =>
          /\ tts_pc = "get"
          /\ tts_pc' = "stream"
          /\ tts_utt' = Head(message_queue)
          /\ message_queue' = Tail(message_queue)

C25_Pts ==
    /\ audio_chunk_size = 320
    /\ \A t \in Tracks :
          /\ trk[t].has_ts =>
                 trk[t].timestamp =
                     (IF t = "video" THEN 3600 ELSE 320) * trk[t].frame_count
          /\ (trk[t].has_ts /\ trk[t].pc = "idle") =>
                 trk[t].pts = trk[t].timestamp
    /\ \A k \in 0..(2 * MaxTicks * BatchSize) :
          /\ (k * PtsStep("video")) * AUDIO_SAMPLE_RATE =
                 (2 * k * PtsStep("audio")) * VIDEO_CLOCK_RATE
          /\ (k * PtsStep("video")) * 1000 = (k * 40) * VIDEO_CLOCK_RATE

C25_Step ==
    \A t \in Tracks :
        trk'[t].pts # trk[t].pts =>
            /\ trk'[t].pc = "idle"
            /\ trk'[t].pts = (IF t = "video" THEN 3600 ELSE 320) * trk'[t].frame_count
            /\ trk'[t].pts =
                   IF trk[t].pts < 0 THEN 0
                   ELSE trk[t].pts + (IF t = "video" THEN 3600 ELSE 320)

C25_FixedPtsStep == []C25_Pts /\ [][C25_Step]_vars

\* the video track has returned frame 2 late, four periods after frame 0,
\* and the audio track frame 4: both carry media time 80 ms
C25_Witness ==
    /\ trk["video"].pc = "idle"
    /\ trk["video"].pts = 7200
    /\ trk["video"].returned > trk["video"].start_time + 2 * VIDEO_PTIME
    /\ trk["audio"].pc = "idle"
    /\ trk["audio"].pts = 1280

\* C26: every tick of the ingestion loop, the first one included, ends with
\* its 2 * batch_size chunks on the audio-out queue and one mel batch put on
\* the mel-feature queue, and every mel batch holds exactly batch_size
\* windows, for every batch size from 1 up.
C26_Step ==
    (ing_pc = "mel" /\ ing_pc' = "check") =>
        /\ ing_i = 2 * batch_size
        /\ Len(audio_feature_queue') = Len(audio_feature_queue) + 1
        /\ Last(audio_feature_queue').tick = tick
        /\ Last(audio_feature_queue').n = batch_size

C26_MelBatchOfBatchSize == [][C26_Step]_vars

\* C27: when the inference stage takes a mel batch from the mel-feature
\* queue, the audio-out queue holds at least 2 * batch_size chunks (its reads
\* without timeout find them there), and the 2 * batch_size chunks it is
\* going to read are the chunks of the tick that made the mel batch.
C27_Step ==
    (lip_pc = "getmel" /\ lip_pc' = "getaudio") =>
        /\ Len(audio_output_queue) >= 2 * batch_size
        /\ \A i \in 1..(2 * batch_size) :
               audio_output_queue[i].tick = Head(audio_feature_queue).tick

C27_AudioOfTheMelTick == [][C27_Step]_vars

\* one of the two chunks paired with frame f is TALKING: the compositor
\* takes the paste path for f
PastePath(f) == IsTalking(f.audio[1]) \/ IsTalking(f.audio[2])

\* C28: the compositor never pastes missing pixels: every ResultFrame for
\* which it takes the paste path (one of its two chunks is TALKING) carries
\* pixels, on the result-frame queue and when the compositor takes it.
C28_Frames ==
    \A i \in 1..Len(result_frame_queue) :
        PastePath(result_frame_queue[i]) => result_frame_queue[i].pixels

C28_Step ==
    /\ (ResultFramePut /\ PastePath(Last(result_frame_queue'))) =>
           Last(result_frame_queue').pixels
    /\ (FrameTaken /\ PastePath(Head(result_frame_queue))) =>
           Head(result_frame_queue).pixels
    /\ (Len(combined_frame_queue') > Len(combined_frame_queue)
          /\ Last(combined_frame_queue').image = "pasted") =>
           Head(result_frame_queue).pixels

C28_PastePathHasPixels == []C28_Frames /\ [][C28_Step]_vars

\* the batch of the flush chunk was inferred: its first frame, paired with
\* the flush chunk, went the paste path, and its second frame carries
\* pixels although both its chunks are silent
C28_Witness ==
    /\ nput = 4
    /\ Len(combined_frame_queue) = 1
    /\ combined_frame_queue[1].image = "pasted"
    /\ combined_frame_queue[1].audio[1].kind = "flush"
    /\ Len(result_frame_queue) = 1
    /\ result_frame_queue[1].pixels
    /\ ~PastePath(result_frame_queue[1])

\* C29: the audio-out queue has no capacity of its own, but the put on the
\* full mel-feature queue holds the ingestion loop back: for a batch size of
\* 3 or more the audio-out queue never holds more than 8 * batch_size
\* chunks, however long the inference stage takes.
C29_AudioOutBounded ==
    batch_size >= 3 => Len(audio_output_queue) <= 8 * batch_size

\* four ticks' worth of chunks wait: the inference stage has taken one mel
\* batch and read none of its chunks, two batches are queued and the
\* ingestion loop waits at its put
C29_Witness ==
    /\ batch_size = 3
    /\ Len(audio_output_queue) = 8 * batch_size
    /\ lip_pc = "getaudio"
    /\ ing_pc = "mel"
    /\ MelPutBlocked

\* C30: in an inference batch that starts at counter value idx the face
\* fed to the model for slot i is face_frames[reflection(N, idx + i)], the
\* ResultFrame of slot i carries frameIndex reflection(N, idx + i), and so
\* every predicted crop is pasted into the full frame, at the bounding box,
\* of the base frame it was predicted from.
C30_Frames ==
    /\ \A i \in 1..Len(result_frame_queue) :
           result_frame_queue[i].pixels =>
               result_frame_queue[i].face = result_frame_queue[i].frameIndex
    /\ \A i \in 1..Len(combined_frame_queue) :
           combined_frame_queue[i].image = "pasted" =>
               combined_frame_queue[i].crop = combined_frame_queue[i].frameIndex
    /\ (lip_pc = "put" /\ lip_speech) =>
           /\ Len(lip_faces) = batch_size
           /\ \A i \in 0..(batch_size - 1) :
                  lip_faces[i + 1] =
                      reflection(face_frames_len, index - lip_i + i)

C30_Step ==
    /\ (lip_pc = "infer" /\ lip_pc' = "put") =>
           /\ index' = index
           /\ \A i \in 0..(batch_size - 1) :
                  lip_faces'[i + 1] = reflection(face_frames_len, index + i)
    /\ (ResultFramePut /\ lip_speech) =>
           /\ Last(result_frame_queue').pixels
           /\ Last(result_frame_queue').frameIndex =
                  reflection(face_frames_len, (index - lip_i) + lip_i)
           /\ Last(result_frame_queue').face = lip_faces[lip_i + 1]
    /\ (Len(combined_frame_queue') > Len(combined_frame_queue)
          /\ Last(combined_frame_queue').image = "pasted") =>
           /\ Last(combined_frame_queue').frameIndex =
                  Head(result_frame_queue).frameIndex
           /\ Last(combined_frame_queue').crop = Head(result_frame_queue).face

C30_CropPastedOnItsOwnFrame == []C30_Frames /\ [][C30_Step]_vars

\* the second inference batch started at counter value 2: its second slot
\* was fed the face of base frame 2 again (reflection(3, 3) = 2), and the
\* crop of its first slot has been pasted into full frame 2
C30_Witness ==
    /\ face_frames_len = 3
    /\ lip_faces = <<2, 2>>
    /\ nput = 4
    /\ Len(combined_frame_queue) = 3
    /\ combined_frame_queue[3].image = "pasted"
    /\ combined_frame_queue[3].crop = 2
    /\ combined_frame_queue[3].frameIndex = 2

====
